---- MODULE Spec2Model ----
(***************************************************************************)
(* A model of WorthyPokemons.py: the two cached remote lookups             *)
(* (get_pokemon_details, get_species_info), the defensive score            *)
(* (calculate_defensive_effectiveness), the name classification helpers    *)
(* and the per-entity loop of main().                                      *)
(*                                                                         *)
(* Four specifications share the variables:                                *)
(*   FetchSpec  calls of the two lookups on arbitrary response scripts,    *)
(*   ScoreSpec  the score of arbitrary type lists over arbitrary charts,   *)
(*   Spec       the loop of main() over the filtered catalogue listing     *)
(*              (FairSpec: the same with the loop's progress),             *)
(*   TwinSpec   a run of main() and a second run, against a service whose  *)
(*              answers are fixed.                                         *)
(***************************************************************************)
EXTENDS Integers, Sequences, FiniteSets, TLC

VARIABLES
    \* ---- main(): configuration and loop state
    include_forms,          \* args.include_forms
    min_bst,                \* args.min_bst
    type_chart,             \* type name -> damage relations
    all_pokemon,            \* the filtered listing the loop walks
    idx,                    \* position of the loop in all_pokemon (1-based)
    pc,                     \* position inside the loop body
    pokemon_data,           \* detail record of the current entity
    national_dex_no,        \* result of get_national_dex_number
    pokemon_details_cache,  \* dict url -> detail record
    species_info_cache,     \* dict id -> species record
    results,                \* list of result rows
    processed_signatures,   \* keys (base_name, signature) accepted so far
    error_count,            \* entities that ended in the except branch
    report,                 \* the sorted rows handed to the report
    \* ---- observation of the loop (not program state)
    outcomes,               \* terminal outcome of every processed entity
    reqs,                   \* remote requests of the current/last entity
    legend,                 \* how is_legendary_or_mythical resolved
    contacted,              \* species id -> its lookups that went to the service
    \* ---- the service and the runs of the pipeline (TwinSpec)
    remote,                 \* None: any answer; else the answer for every url
    run,                    \* which run this is, and what the first one left
    \* ---- FetchSpec: the last lookup call and how it ended
    fetch,
    \* ---- ScoreSpec: calculate_defensive_effectiveness's locals
    pokemon_types, immunities, quarter_damage, half_damage, score

vars == << include_forms, min_bst, type_chart, all_pokemon, idx, pc,
           pokemon_data, national_dex_no, pokemon_details_cache,
           species_info_cache, results, processed_signatures, error_count,
           report, outcomes, reqs, legend, contacted, remote, run, fetch,
           pokemon_types, immunities, quarter_damage, half_damage, score >>

mainVars == << include_forms, min_bst, all_pokemon, idx, pc, pokemon_data,
               national_dex_no, results, processed_signatures, error_count,
               report, outcomes, reqs, legend, contacted, remote, run >>

runVars == << remote, run >>

scoreVars == << pokemon_types, immunities, quarter_damage, half_damage, score >>

-----------------------------------------------------------------------------
(* Python values *)

\* Python's None (a record, so that it compares with records)
None == [none |-> TRUE]

\* max_retries, the default of both lookups
MaxRetries == 3

\* responses a script holds beyond the max_retries a lookup can consume
ExtraResponses == 1

\* What one requests.get can produce: a status with a well-formed body, a 200
\* whose body does not parse (json.JSONDecodeError), or a transport error
\* (requests.RequestException).
Responses == {"200", "404", "429", "500", "malformed", "exc"}

\* the two kinds the except clause of a lookup catches
Raises(response) == response \in {"malformed", "exc"}

RECURSIVE SeqsOfLen(_, _)
SeqsOfLen(S, n) ==
    IF n = 0 THEN {<< >>}
    ELSE {Append(s, x) : s \in SeqsOfLen(S, n - 1), x \in S}

-----------------------------------------------------------------------------
(* Strings: a name is the sequence of its hyphen-separated parts *)

\* str(n) for a natural number, as its sequence of decimal digits
RECURSIVE Str(_)
Str(n) ==
    LET d == <<"0", "1", "2", "3", "4", "5", "6", "7", "8", "9">>[(n % 10) + 1]
    IN  IF n < 10 THEN << d >> ELSE Append(Str(n \div 10), d)

Digits == {"0", "1", "2", "3", "4", "5", "6", "7", "8", "9"}

\* s.split('-')[0] on a sequence of characters
RECURSIVE SplitFirst(_)
SplitFirst(s) ==
    IF s = << >> \/ Head(s) = "-" THEN << >>
    ELSE << Head(s) >> \o SplitFirst(Tail(s))

\* A faulty variant of IsDigit: the test is made for letters (isalpha).
IsDigit_Alpha(s) == Len(s) > 0 /\ \A k \in 1..Len(s) : s[k] \notin Digits

\* s.isdigit()
IsDigit(s) == Len(s) > 0 /\ \A k \in 1..Len(s) : s[k] \in Digits

-----------------------------------------------------------------------------
(* The remote catalogue: what the service answers with a 200 *)

\* detail records (pokemon/<id>/ and pokemon/<name>/): id, name, types, stats
Pikachu   == [id |-> 25,    name |-> <<"pikachu">>,
              types |-> <<"electric">>,           stats |-> <<3, 2>>]
PikaBelle == [id |-> 10082, name |-> <<"pikachu", "belle">>,
              types |-> <<"electric">>,           stats |-> <<3, 2>>]
Kartana   == [id |-> 798,   name |-> <<"kartana">>,
              types |-> <<"grass", "steel">>,     stats |-> <<4, 3>>]
IronHands == [id |-> 992,   name |-> <<"iron", "hands">>,
              types |-> <<"fighting", "electric">>, stats |-> <<4, 3>>]
Mewtwo    == [id |-> 150,   name |-> <<"mewtwo">>,
              types |-> <<"psychic">>,            stats |-> <<4, 4>>]
Indeedee  == [id |-> 10186, name |-> <<"indeedee", "female">>,
              types |-> <<"psychic", "normal">>,  stats |-> <<3, 3>>]
Obstagoon == [id |-> 862,   name |-> <<"obstagoon">>,
              types |-> <<"dark", "normal">>,     stats |-> <<3, 3>>]
\* of the score of Obstagoon, with a lower total
Tangrowth == [id |-> 465,   name |-> <<"tangrowth">>,
              types |-> <<"grass">>,              stats |-> <<3, 2>>]
\* two entries of a type the type chart does not hold (line 293 leaves
\* 'unknown' and 'shadow' out of it)
Shade     == [id |-> 1026,  name |-> <<"shade">>,
              types |-> <<"shadow">>,             stats |-> <<3, 3>>]
ShadeForm == [id |-> 10300, name |-> <<"shade", "belle">>,
              types |-> <<"shadow">>,             stats |-> <<3, 3>>]

Catalogue == {Pikachu, PikaBelle, Kartana, IronHands, Mewtwo, Indeedee,
              Obstagoon, Tangrowth, Shade, ShadeForm}

\* species records (pokemon-species/<id>/); alternate forms have none
Species ==
    {[id |-> 25,   is_legendary |-> FALSE, is_mythical |-> FALSE],
     [id |-> 798,  is_legendary |-> FALSE, is_mythical |-> FALSE],
     [id |-> 992,  is_legendary |-> FALSE, is_mythical |-> FALSE],
     [id |-> 150,  is_legendary |-> TRUE,  is_mythical |-> FALSE],
     [id |-> 862,  is_legendary |-> FALSE, is_mythical |-> FALSE],
     [id |-> 465,  is_legendary |-> FALSE, is_mythical |-> FALSE],
     [id |-> 1026, is_legendary |-> FALSE, is_mythical |-> FALSE]}

\* the entry of the listing for a catalogue record: pokemon['name'], pokemon['url']
ListUrl(p) == [id |-> p.id, name |-> ""]
Entry(p) == [name |-> p.name, url |-> ListUrl(p)]

\* f"https://pokeapi.co/api/v2/pokemon/{base_name}/"
NameUrl(base_name) == [id |-> 0, name |-> base_name]

\* the record behind a detail url, None when the service has none
RemoteDetails(url) ==
    LET hits == {p \in Catalogue :
                    \/ url.name = "" /\ p.id = url.id
                    \/ url.name # "" /\ p.name = << url.name >>}
    IN  IF hits = {} THEN None ELSE CHOOSE p \in hits : TRUE

\* f"https://pokeapi.co/api/v2/pokemon-species/{pokemon_id}/": the id as text
SpeciesUrl(id_text) == id_text

\* the record behind a species url, None when the service has none
RemoteSpecies(url) ==
    LET hits == {s \in Species : SpeciesUrl(Str(s.id)) = url}
    IN  IF hits = {} THEN None ELSE CHOOSE s \in hits : TRUE

-----------------------------------------------------------------------------
(* get_pokemon_details: lines 31-56 *)

\* A faulty variant of DetailsBranch: the last attempt raises on any failure,
\* an error status included.
DetailsBranch_RaiseWhenExhausted(response, attempt) ==
    IF response = "200" THEN "return"
    ELSE IF attempt < MaxRetries - 1 THEN "next"
    ELSE "raise"

\* What one attempt of the loop does with its response (lines 40-55):
\* "return" the parsed record, "raise", or go on to the next attempt.
DetailsBranch(response, attempt) ==
    IF response = "200" THEN "return"
    ELSE IF response = "429" THEN "next"
    ELSE IF ~Raises(response) THEN "next"
    ELSE IF attempt < MaxRetries - 1 THEN "next"
    ELSE "raise"

\* A faulty variant of DetailsAttempts: the loop runs one attempt too many.
RECURSIVE DetailsAttempts_OneMore(_, _, _, _)
DetailsAttempts_OneMore(url, details_cache, resps, attempt) ==
    IF attempt >= MaxRetries + 1
    THEN [raised |-> FALSE, value |-> None, cache |-> details_cache,
          nreq |-> attempt]
    ELSE LET branch == DetailsBranch(resps[attempt + 1], attempt)
             pokemon_data_ == RemoteDetails(url)
         IN
         CASE branch = "return" ->
                [raised |-> FALSE, value |-> pokemon_data_,
                 cache |-> (url :> pokemon_data_) @@ details_cache,
                 nreq |-> attempt + 1]
           [] branch = "raise" ->
                [raised |-> TRUE, value |-> None, cache |-> details_cache,
                 nreq |-> attempt + 1]
           [] OTHER ->
                DetailsAttempts_OneMore(url, details_cache, resps, attempt + 1)

\* The loop of lines 37-55 from `attempt` on; resps[attempt + 1] is what
\* requests.get answers in that attempt.  The result says how the call ended:
\* raised, or returned `value`; the cache as left; the requests issued.
RECURSIVE DetailsAttempts(_, _, _, _)
DetailsAttempts(url, details_cache, resps, attempt) ==
    IF attempt >= MaxRetries
    THEN [raised |-> FALSE, value |-> None, cache |-> details_cache,
          nreq |-> attempt]
    ELSE LET branch == DetailsBranch(resps[attempt + 1], attempt)
             pokemon_data_ == RemoteDetails(url)
         IN
         CASE branch = "return" ->
                [raised |-> FALSE, value |-> pokemon_data_,
                 cache |-> (url :> pokemon_data_) @@ details_cache,
                 nreq |-> attempt + 1]
           [] branch = "raise" ->
                [raised |-> TRUE, value |-> None, cache |-> details_cache,
                 nreq |-> attempt + 1]
           [] OTHER ->
                DetailsAttempts(url, details_cache, resps, attempt + 1)

\* A faulty variant of get_pokemon_details: the cache is not consulted.
get_pokemon_details_NoLookup(url, details_cache, resps) ==
    DetailsAttempts(url, details_cache, resps, 0)

get_pokemon_details(url, details_cache, resps) ==
    IF url \in DOMAIN details_cache
    THEN [raised |-> FALSE, value |-> details_cache[url],
          cache |-> details_cache, nreq |-> 0]
    ELSE DetailsAttempts(url, details_cache, resps, 0)

-----------------------------------------------------------------------------
(* get_species_info: lines 58-99 *)

\* the record synthesized at lines 82 and 97: it has no 'id'
DefaultData == [is_legendary |-> FALSE, is_mythical |-> FALSE]

\* keys of the species dict: the int ids the program uses
IntKey(pokemon_id) == << "int", pokemon_id >>

\* A faulty variant of SpeciesBranch: a 429 in the last attempt is taken for a
\* failure and raises.
SpeciesBranch_RateLimitRaises(response, attempt) ==
    IF response = "200" THEN "return"
    ELSE IF response = "404" THEN "not_found"
    ELSE IF response = "500" THEN "next"
    ELSE IF attempt < MaxRetries - 1 THEN "next"
    ELSE "raise"

\* What one attempt of the loop does with its response (lines 69-95):
\* "return" the parsed record, take the 404 branch, "raise", or go on.
SpeciesBranch(response, attempt) ==
    IF response = "200" THEN "return"
    ELSE IF response = "404" THEN "not_found"
    ELSE IF response = "429" THEN "next"
    ELSE IF ~Raises(response) THEN "next"
    ELSE IF attempt < MaxRetries - 1 THEN "next"
    ELSE "raise"

\* A faulty variant of SpeciesAttempts: the default record is returned but
\* not stored.
RECURSIVE SpeciesAttempts_DefaultNotStored(_, _, _, _, _, _)
SpeciesAttempts_DefaultNotStored(pokemon_id, species_cache, resps, attempt, url, urls) ==
    LET default_data == DefaultData IN
    IF attempt >= MaxRetries
    THEN [raised |-> FALSE, value |-> default_data,
          cache |-> species_cache,
          nreq |-> attempt, urls |-> urls]
    ELSE LET branch == SpeciesBranch(resps[attempt + 1], attempt)
             asked == Append(urls, url)
             species_data == RemoteSpecies(url)
             base_id == SplitFirst(Str(pokemon_id))
         IN
         CASE branch = "return" ->
                [raised |-> FALSE, value |-> species_data,
                 cache |-> (IntKey(pokemon_id) :> species_data) @@ species_cache,
                 nreq |-> attempt + 1, urls |-> asked]
           [] branch = "not_found" /\ IsDigit(base_id) ->
                SpeciesAttempts_DefaultNotStored(pokemon_id, species_cache, resps,
                                attempt + 1, SpeciesUrl(base_id), asked)
           [] branch = "not_found" /\ ~IsDigit(base_id) ->
                [raised |-> FALSE, value |-> default_data,
                 cache |-> species_cache,
                 nreq |-> attempt + 1, urls |-> asked]
           [] branch = "raise" ->
                [raised |-> TRUE, value |-> None, cache |-> species_cache,
                 nreq |-> attempt + 1, urls |-> asked]
           [] OTHER ->
                SpeciesAttempts_DefaultNotStored(pokemon_id, species_cache, resps,
                                attempt + 1, url, asked)

\* The loop of lines 66-95 from `attempt` on, `url` being the url the next
\* request goes to and `urls` the urls requested so far.
RECURSIVE SpeciesAttempts(_, _, _, _, _, _)
SpeciesAttempts(pokemon_id, species_cache, resps, attempt, url, urls) ==
    LET default_data == DefaultData IN
    IF attempt >= MaxRetries
    THEN [raised |-> FALSE, value |-> default_data,
          cache |-> (IntKey(pokemon_id) :> default_data) @@ species_cache,
          nreq |-> attempt, urls |-> urls]
    ELSE LET branch == SpeciesBranch(resps[attempt + 1], attempt)
             asked == Append(urls, url)
             species_data == RemoteSpecies(url)
             base_id == SplitFirst(Str(pokemon_id))
         IN
         CASE branch = "return" ->
                [raised |-> FALSE, value |-> species_data,
                 cache |-> (IntKey(pokemon_id) :> species_data) @@ species_cache,
                 nreq |-> attempt + 1, urls |-> asked]
           [] branch = "not_found" /\ IsDigit(base_id) ->
                SpeciesAttempts(pokemon_id, species_cache, resps,
                                attempt + 1, SpeciesUrl(base_id), asked)
           [] branch = "not_found" /\ ~IsDigit(base_id) ->
                [raised |-> FALSE, value |-> default_data,
                 cache |-> (IntKey(pokemon_id) :> default_data) @@ species_cache,
                 nreq |-> attempt + 1, urls |-> asked]
           [] branch = "raise" ->
                [raised |-> TRUE, value |-> None, cache |-> species_cache,
                 nreq |-> attempt + 1, urls |-> asked]
           [] OTHER ->
                SpeciesAttempts(pokemon_id, species_cache, resps,
                                attempt + 1, url, asked)

get_species_info(pokemon_id, species_cache, resps) ==
    IF IntKey(pokemon_id) \in DOMAIN species_cache
    THEN [raised |-> FALSE, value |-> species_cache[IntKey(pokemon_id)],
          cache |-> species_cache, nreq |-> 0, urls |-> << >>]
    ELSE SpeciesAttempts(pokemon_id, species_cache, resps, 0,
                         SpeciesUrl(Str(pokemon_id)), << >>)

-----------------------------------------------------------------------------
(* calculate_defensive_effectiveness: lines 107-136 *)

\* A damage-relation list is modelled by the set of its type names: the
\* service lists a name at most once per relation, and the loop body below
\* acts on each name independently of the others of the same list.

\* A faulty variant of AddResistance: the promotion to quarter_damage leaves
\* the type in half_damage (no half_damage.remove).
AddResistance_NoRemove(sets, resistance_type) ==
    IF resistance_type \in sets.immunities THEN sets
    ELSE IF resistance_type \in sets.quarter_damage THEN sets
    ELSE IF resistance_type \in sets.half_damage
    THEN [sets EXCEPT !.quarter_damage = @ \cup {resistance_type}]
    ELSE [sets EXCEPT !.half_damage = @ \cup {resistance_type}]

\* lines 126-134: one resistance_type of half_damage_from
AddResistance(sets, resistance_type) ==
    IF resistance_type \in sets.immunities THEN sets
    ELSE IF resistance_type \in sets.quarter_damage THEN sets
    ELSE IF resistance_type \in sets.half_damage
    THEN [sets EXCEPT !.quarter_damage = @ \cup {resistance_type},
                      !.half_damage = @ \ {resistance_type}]
    ELSE [sets EXCEPT !.half_damage = @ \cup {resistance_type}]

\* lines 123-134: the loop over relations['half_damage_from']
RECURSIVE HalfDamageLoop(_, _)
HalfDamageLoop(sets, half_damage_from) ==
    IF half_damage_from = {} THEN sets
    ELSE LET resistance == CHOOSE r \in half_damage_from : TRUE
         IN  HalfDamageLoop(AddResistance(sets, resistance),
                            half_damage_from \ {resistance})

\* lines 114-134: the body of the loop for one poke_type
TypeStep(sets, relations) ==
    HalfDamageLoop([sets EXCEPT !.immunities = @ \cup relations.no_damage_from],
                   relations.half_damage_from)

\* lines 113-134: the loop over pokemon_types, in list order
RECURSIVE TypesLoop(_, _, _)
TypesLoop(sets, types, chart) ==
    IF types = << >> THEN sets
    ELSE TypesLoop(TypeStep(sets, chart[Head(types)]), Tail(types), chart)

EmptySets == [immunities |-> {}, quarter_damage |-> {}, half_damage |-> {}]

\* The call: KeyError (raised) when type_chart lacks one of the types, else
\* the three sets at line 136 and the score returned there.
calculate_defensive_effectiveness(types, chart) ==
    IF \E k \in 1..Len(types) : types[k] \notin DOMAIN chart
    THEN [raised |-> TRUE, sets |-> EmptySets, score |-> 0]
    ELSE LET sets == TypesLoop(EmptySets, types, chart)
         IN  [raised |-> FALSE, sets |-> sets,
              score |-> Cardinality(sets.immunities)
                        + Cardinality(sets.quarter_damage)
                        + Cardinality(sets.half_damage)]

-----------------------------------------------------------------------------
(* Name classification: lines 138-229 *)

\* names with a hyphen that are no alternate forms (lines 141)
exceptions == {<<"kommo", "o">>, <<"hakamo", "o">>, <<"jangmo", "o">>,
               <<"type", "null">>, <<"ho", "oh">>, <<"porygon", "z">>}

\* lines 138-144: '-' in pokemon_name is "the name has more than one part"
is_special_form(pokemon_name) ==
    Len(pokemon_name) > 1 /\ pokemon_name \notin exceptions

\* lines 146-154.  'gmax-' and 'gigantamax-' occur in the name when a part
\* that is not the last ends in them; '-male' and '-female' occur when a part
\* that is not the first starts with them.  Over the parts of this catalogue
\* "ends in" and "starts with" are equality.
is_gmax_or_gender_form(pokemon_name) ==
    \/ \E k \in 1..(Len(pokemon_name) - 1) :
            pokemon_name[k] \in {"gmax", "gigantamax"}
    \/ \E k \in 2..Len(pokemon_name) :
            pokemon_name[k] \in {"male", "female"}

ultra_beasts ==
    {<<"nihilego">>, <<"buzzwole">>, <<"pheromosa">>, <<"xurkitree">>,
     <<"celesteela">>, <<"kartana">>, <<"guzzlord">>, <<"poipole">>,
     <<"naganadel">>, <<"stakataka">>, <<"blacephalon">>}

paradox_pokemon ==
    {<<"great", "tusk">>, <<"scream", "tail">>, <<"brute", "bonnet">>,
     <<"flutter", "mane">>, <<"slither", "wing">>, <<"sandy", "shocks">>,
     <<"iron", "treads">>, <<"iron", "bundle">>, <<"iron", "hands">>,
     <<"iron", "jugulis">>, <<"iron", "moth">>, <<"iron", "thorns">>,
     <<"iron", "valiant">>, <<"roaring", "moon">>, <<"iron", "leaves">>,
     <<"walking", "wake">>, <<"gouging", "fire">>, <<"raging", "bolt">>,
     <<"iron", "boulder">>, <<"iron", "crown">>}

\* A faulty variant of is_excluded_pokemon: the paradox list is not consulted.
is_excluded_pokemon_UltraOnly(pokemon_name) == pokemon_name \in ultra_beasts

\* lines 192-208
is_excluded_pokemon(pokemon_name) ==
    pokemon_name \in ultra_beasts \/ pokemon_name \in paradox_pokemon

form_indicators == {"mega", "alolan", "galarian", "hisuian", "paldean",
                    "primal", "eternamax", "gmax", "gigantamax"}

\* A faulty variant of get_base_form_name: the last part is taken.
get_base_form_name_Last(pokemon_name) == pokemon_name[Len(pokemon_name)]

\* lines 210-223: the result is one part of the name
get_base_form_name(pokemon_name) ==
    IF pokemon_name[1] \in form_indicators /\ Len(pokemon_name) > 1
    THEN pokemon_name[2]
    ELSE pokemon_name[1]

\* the alphabetical order sorted() puts type names in
TypeOrder == <<"dark", "electric", "fighting", "grass", "normal", "psychic",
               "shadow", "steel">>

Rank(type_name) == CHOOSE k \in 1..Len(TypeOrder) : TypeOrder[k] = type_name

\* sorted(list of type names)
RECURSIVE Sorted(_)
Sorted(types) ==
    IF types = << >> THEN << >>
    ELSE LET rest == Sorted(Tail(types))
             before == SelectSeq(rest, LAMBDA t : Rank(t) <= Rank(Head(types)))
             after  == SelectSeq(rest, LAMBDA t : Rank(t) > Rank(Head(types)))
         IN  before \o << Head(types) >> \o after

\* lines 225-229; get_pokemon_signature(None) raises TypeError
get_pokemon_signature(data) == << Sorted(data.types), data.stats >>

\* sum(stat['base_stat'] for stat in pokemon_data['stats'])
RECURSIVE Sum(_)
Sum(stats) == IF stats = << >> THEN 0 ELSE Head(stats) + Sum(Tail(stats))

-----------------------------------------------------------------------------
(* Values of the variables a specification does not use *)

EmptyDict == [k \in {} |-> None]

NoFetch == [fn |-> "none"]

\* is_legendary_or_mythical not yet called for the current entity
NoLegend == [decided |-> FALSE, name |-> << >>, own |-> "none", base |-> "none",
             base_species |-> "none", verdict |-> FALSE]

\* the first run of the pipeline, and the caches it starts from
FirstRun(details_cache, species_cache) ==
    [no |-> 1, kind |-> "first",
     start |-> [details |-> details_cache, species |-> species_cache],
     first |-> None]

MainIdle ==
    /\ contacted = EmptyDict
    /\ remote = None
    /\ run = FirstRun(EmptyDict, EmptyDict)
    /\ include_forms = FALSE
    /\ min_bst = 0
    /\ all_pokemon = << >>
    /\ idx = 1
    /\ pc = "idle"
    /\ pokemon_data = None
    /\ national_dex_no = 0
    /\ results = << >>
    /\ processed_signatures = {}
    /\ error_count = 0
    /\ report = << >>
    /\ outcomes = << >>
    /\ reqs = 0
    /\ legend = NoLegend

ScoreIdle ==
    /\ pokemon_types = << >>
    /\ immunities = {}
    /\ quarter_damage = {}
    /\ half_damage = {}
    /\ score = -1

-----------------------------------------------------------------------------
(* FetchSpec: one call of a lookup, on a cache that is empty or holds the  *)
(* key, against every script of responses the service can answer with      *)

ScriptLen == MaxRetries + ExtraResponses

\* the detail urls called: a listing url, and a base-name url the service
\* has no record for
FetchUrls == {ListUrl(Pikachu), NameUrl("ho")}

\* the species ids called: a species of its own, and an alternate form's id
FetchIds == {25, 10082}

Has200(resps) == \E k \in 1..Len(resps) : resps[k] = "200"

\* fetch.resps is the script the service will follow
FetchInit ==
    /\ MainIdle /\ ScoreIdle
    /\ type_chart = EmptyDict
    /\ pokemon_details_cache \in {EmptyDict, ListUrl(Pikachu) :> Pikachu}
    /\ species_info_cache \in {EmptyDict, IntKey(25) :> RemoteSpecies(Str(25))}
    /\ fetch \in {[fn |-> "none", resps |-> s] :
                     s \in SeqsOfLen(Responses, ScriptLen)}

CallDetails ==
    /\ fetch.fn = "none"
    /\ \E url \in FetchUrls :
        LET r == get_pokemon_details(url, pokemon_details_cache, fetch.resps) IN
        /\ RemoteDetails(url) = None => ~Has200(fetch.resps)
        /\ fetch' = [fn |-> "details", url |-> url,
                     cached |-> url \in DOMAIN pokemon_details_cache,
                     resps |-> fetch.resps, raised |-> r.raised,
                     value |-> r.value, nreq |-> r.nreq]
        /\ pokemon_details_cache' = r.cache
    /\ UNCHANGED << species_info_cache, type_chart, mainVars, scoreVars >>

CallSpecies ==
    /\ fetch.fn = "none"
    /\ \E pokemon_id \in FetchIds :
        LET r == get_species_info(pokemon_id, species_info_cache, fetch.resps) IN
        /\ RemoteSpecies(Str(pokemon_id)) = None => ~Has200(fetch.resps)
        /\ fetch' = [fn |-> "species", pokemon_id |-> pokemon_id,
                     cached |-> IntKey(pokemon_id) \in DOMAIN species_info_cache,
                     resps |-> fetch.resps, raised |-> r.raised,
                     value |-> r.value, nreq |-> r.nreq, urls |-> r.urls]
        /\ species_info_cache' = r.cache
    /\ UNCHANGED << pokemon_details_cache, type_chart, mainVars, scoreVars >>

FetchNext == CallDetails \/ CallSpecies

FetchSpec == FetchInit /\ [][FetchNext]_vars

-----
(* ScoreSpec: calculate_defensive_effectiveness on every type list of up to *)
(* MaxTypes types over every chart of ScoreTypes against AttackTypes        *)

MaxTypes == 3

ScoreTypes == {"steel", "fairy", "ghost"}

AttackTypes == {"dragon", "normal"}

Relations == [no_damage_from : SUBSET AttackTypes,
              half_damage_from : SUBSET AttackTypes]

TypeLists == UNION {SeqsOfLen(ScoreTypes, n) : n \in 1..MaxTypes}

ScoreInit ==
    /\ MainIdle
    /\ type_chart \in [ScoreTypes -> Relations]
    /\ pokemon_types \in TypeLists
    /\ immunities = {}
    /\ quarter_damage = {}
    /\ half_damage = {}
    /\ score = -1
    /\ pokemon_details_cache = EmptyDict
    /\ species_info_cache = EmptyDict
    /\ fetch = NoFetch

\* one call: the three sets as they stand at line 136, and the score returned
Calculate ==
    /\ score = -1
    /\ LET r == calculate_defensive_effectiveness(pokemon_types, type_chart) IN
        /\ ~r.raised
        /\ immunities' = r.sets.immunities
        /\ quarter_damage' = r.sets.quarter_damage
        /\ half_damage' = r.sets.half_damage
        /\ score' = r.score
    /\ UNCHANGED << pokemon_types, type_chart, pokemon_details_cache,
                    species_info_cache, fetch, mainVars >>

ScoreNext == Calculate

ScoreSpec == ScoreInit /\ [][ScoreNext]_vars

-----------------------------------------------------------------------------
(* main(): lines 264-421 *)

\* The type chart as built at lines 287-297 (or loaded from the file a run
\* has saved): every type of the service except 'unknown' and 'shadow'.
BuiltChart ==
    [t \in {"dark", "electric", "fighting", "grass", "normal", "psychic", "steel"} |->
        CASE t = "dark"     -> [no_damage_from |-> {"psychic"},
                                half_damage_from |-> {"ghost", "dark"}]
          [] t = "electric" -> [no_damage_from |-> {},
                                half_damage_from |-> {"flying", "steel", "electric"}]
          [] t = "fighting" -> [no_damage_from |-> {},
                                half_damage_from |-> {"rock", "bug", "dark"}]
          [] t = "grass"    -> [no_damage_from |-> {},
                                half_damage_from |-> {"ground", "water", "grass", "electric"}]
          [] t = "normal"   -> [no_damage_from |-> {"ghost"},
                                half_damage_from |-> {}]
          [] t = "psychic"  -> [no_damage_from |-> {},
                                half_damage_from |-> {"fighting", "psychic"}]
          [] t = "steel"    -> [no_damage_from |-> {"poison"},
                                half_damage_from |-> {"normal", "flying", "rock", "bug",
                                                      "steel", "grass", "psychic", "ice",
                                                      "dragon", "fairy"}]]

\* get_all_pokemon(limit=4000): the listings analysed.  Entries meet only in
\* the two caches and in processed_signatures, so an alternate form is listed
\* with its base form, in both orders, and the other entries apart.
Listings ==
    {<< Entry(Pikachu), Entry(PikaBelle), Entry(Kartana), Entry(Indeedee),
        Entry(IronHands) >>,
     << Entry(IronHands), Entry(Indeedee), Entry(Kartana), Entry(PikaBelle),
        Entry(Pikachu) >>,
     << Entry(Mewtwo), Entry(Kartana), Entry(Obstagoon) >>,
     << Entry(ShadeForm), Entry(Shade), Entry(Obstagoon) >>,
     << Entry(Tangrowth), Entry(Obstagoon) >>}

\* lines 309-321: the filter of the listing
RECURSIVE filtered_pokemon(_, _)
filtered_pokemon(listing, forms) ==
    IF listing = << >> THEN << >>
    ELSE LET pokemon == Head(listing)
             rest == filtered_pokemon(Tail(listing), forms)
         IN  IF is_gmax_or_gender_form(pokemon.name) THEN rest
             ELSE IF ~is_special_form(pokemon.name) THEN << pokemon >> \o rest
             ELSE IF forms THEN << pokemon >> \o rest
             ELSE rest

\* json.dump writes the int keys of a dict as strings; json.load reads them
\* back as strings (lines 10-18)
JsonKey(key) == << "str", key[2] >>

\* json.load of what json.dump wrote of `saved`.  A dict that holds an id
\* both as a string (loaded at the start of the run) and as an int (stored
\* during the run) is written with the key twice, the int's entry last, and
\* json.load keeps the last.
load_dictionary(saved) ==
    [k \in {JsonKey(j) : j \in DOMAIN saved} |->
        saved[IF << "int", k[2] >> \in DOMAIN saved
              THEN << "int", k[2] >> ELSE k]]

\* what an earlier run may have left in pokemon_details.json
SavedDetails == (ListUrl(Pikachu) :> Pikachu) @@ (NameUrl("pikachu") :> Pikachu)

\* what an earlier run may have left in species_info.json
SavedSpecies == (IntKey(25) :> RemoteSpecies(Str(25)))
                @@ (IntKey(10082) :> DefaultData)

\* the values of args.min_bst: the lowest total of the catalogue, and above
MinBsts == {5, 6}

\* main() up to line 327, for every service
Start ==
    /\ include_forms \in BOOLEAN
    /\ min_bst \in MinBsts
    /\ type_chart = BuiltChart
    /\ pokemon_details_cache \in {EmptyDict, SavedDetails}
    /\ species_info_cache \in {EmptyDict, load_dictionary(SavedSpecies)}
    /\ \E listing \in Listings :
          all_pokemon = filtered_pokemon(listing, include_forms)
    /\ idx = 1
    /\ pc = "loop"
    /\ pokemon_data = None
    /\ national_dex_no = 0
    /\ results = << >>
    /\ processed_signatures = {}
    /\ error_count = 0
    /\ report = << >>
    /\ outcomes = << >>
    /\ reqs = 0
    /\ legend = NoLegend
    /\ contacted = EmptyDict
    /\ run = FirstRun(pokemon_details_cache, species_info_cache)
    /\ fetch = NoFetch
    /\ ScoreIdle

\* one run, against a service that may answer any request in any way
Init == Start /\ remote = None

pokemon == all_pokemon[idx]

InLoop == pc = "loop" /\ idx <= Len(all_pokemon)

\* the scripts of one lookup of the loop: a response for each attempt it can
\* make; a service that has no record for the url never answers 200
AnyScripts == SeqsOfLen(Responses, MaxRetries)

FailingScripts == SeqsOfLen(Responses \ {"200"}, MaxRetries)

\* the urls and the ids the loop looks up: the url of a listing entry, the
\* url built from a base form name (lines 239, 354), the 'id' of a record
LoopUrls ==
    {ListUrl(p) : p \in Catalogue}
        \cup {NameUrl(get_base_form_name(p.name)) : p \in Catalogue}

LoopIds == {p.id : p \in Catalogue}

\* What a call that finds nothing cached can come to, for every script: the
\* lookups read the cache only to test the key, and write it only by adding
\* the one entry, so these results with the caller's cache merged in are the
\* results of the call.
FreshDetailResults ==
    [url \in LoopUrls |->
        {get_pokemon_details(url, EmptyDict, resps) :
            resps \in IF RemoteDetails(url) # None
                      THEN AnyScripts ELSE FailingScripts}]

FreshSpeciesResults ==
    [pokemon_id \in LoopIds |->
        {get_species_info(pokemon_id, EmptyDict, resps) :
            resps \in IF RemoteSpecies(Str(pokemon_id)) # None
                      THEN AnyScripts ELSE FailingScripts}]

\* the script of a service that answers every request for a url alike
Steady(response) == [attempt \in 1..MaxRetries |-> response]

\* A faulty variant of DetailResults: the answers of the service are not
\* fixed, whatever `remote` says.
DetailResults_AnyAnswer(url, details_cache) ==
    IF url \in DOMAIN details_cache
    THEN {get_pokemon_details(url, details_cache, << >>)}
    ELSE {[r EXCEPT !.cache = @ @@ details_cache] :
             r \in FreshDetailResults[url]}

\* What a call of get_pokemon_details can come to: one result when the url is
\* cached (no request is made), else the result of every script, or of the
\* one script of the service when its answers are fixed (remote).
DetailResults(url, details_cache) ==
    IF url \in DOMAIN details_cache
    THEN {get_pokemon_details(url, details_cache, << >>)}
    ELSE {[r EXCEPT !.cache = @ @@ details_cache] :
             r \in IF remote = None THEN FreshDetailResults[url]
                   ELSE {get_pokemon_details(url, EmptyDict,
                                             Steady(remote.details[url]))}}

\* the same for get_species_info
SpeciesResults(pokemon_id, species_cache) ==
    IF IntKey(pokemon_id) \in DOMAIN species_cache
    THEN {get_species_info(pokemon_id, species_cache, << >>)}
    ELSE {[r EXCEPT !.cache = @ @@ species_cache] :
             r \in IF remote = None THEN FreshSpeciesResults[pokemon_id]
                   ELSE {get_species_info(pokemon_id, EmptyDict,
                                          Steady(remote.species[pokemon_id]))}}

\* how a species lookup resolved: it raised, or returned a record of the
\* service (with its 'id'), or the synthesized default record
Resolution(r) ==
    IF r.raised THEN "raised"
    ELSE IF "id" \in DOMAIN r.value THEN "record" ELSE "default"

\* The legendary status could not be resolved: the species lookup of the
\* entity (for a special form, a lookup of its base form) got no record.
Unresolved(how) ==
    \/ how.own = "raised"
    \/ ~is_special_form(how.name) /\ how.own = "default"
    \/ /\ is_special_form(how.name)
       /\ \/ how.base \in {"absent", "raised"}
          \/ how.base_species \in {"default", "raised"}

\* The entity ends (continue, or the end of the loop body, or the except
\* branch): the loop moves to the next entry.
End(outcome, reason, how) ==
    /\ outcomes' = Append(outcomes, [name |-> pokemon.name,
                                     outcome |-> outcome, reason |-> reason,
                                     unresolved |-> Unresolved(how)])
    /\ idx' = idx + 1
    /\ pc' = "loop"
    /\ pokemon_data' = None
    /\ national_dex_no' = 0
    /\ reqs' = 0
    /\ legend' = NoLegend

\* the entity goes on to the step `to` of the loop body
Goto(to) ==
    /\ pc' = to
    /\ UNCHANGED << outcomes, idx, national_dex_no >>

\* A faulty variant of OnError: the except branch does not count.
OnError_NoCount(count) == count

\* line 390
OnError(count) == count + 1

\* lines 331-332: a denylisted entry is skipped before any request
SkipExcluded ==
    /\ InLoop
    /\ is_excluded_pokemon(pokemon.name)
    /\ End("Excluded", "denylist", NoLegend)
    /\ UNCHANGED << include_forms, min_bst, type_chart, all_pokemon,
                    pokemon_details_cache, species_info_cache, results,
                    processed_signatures, error_count, report, fetch, contacted,
                    runVars, scoreVars >>

\* lines 335-339: the detail record of the entry
FetchDetails ==
    /\ InLoop
    /\ ~is_excluded_pokemon(pokemon.name)
    /\ \E r \in DetailResults(pokemon.url, pokemon_details_cache) :
        /\ pokemon_details_cache' = r.cache
        /\ IF r.raised
           THEN /\ End("Error", "details", NoLegend)
                /\ error_count' = OnError(error_count)
           ELSE IF r.value = None
           THEN /\ End("Excluded", "no_record", NoLegend)
                /\ UNCHANGED error_count
           ELSE /\ pokemon_data' = r.value
                /\ reqs' = reqs + r.nreq
                /\ Goto("dex")
                /\ UNCHANGED << legend, error_count >>
    /\ UNCHANGED << include_forms, min_bst, type_chart, all_pokemon,
                    species_info_cache, results, processed_signatures,
                    report, fetch, contacted, runVars, scoreVars >>

\* no lookup of the id went to the service yet
NoContact == [calls |-> 0, requests |-> 0, raised |-> 0]

\* the lookup of pokemon_id that ended as r is noted when it went to the
\* service: the call, its requests, and whether it raised
Contact(log, pokemon_id, r) ==
    IF r.nreq = 0 THEN log
    ELSE LET old == IF pokemon_id \in DOMAIN log
                    THEN log[pokemon_id] ELSE NoContact
         IN  (pokemon_id :> [calls |-> old.calls + 1,
                             requests |-> old.requests + r.nreq,
                             raised |-> old.raised + IF r.raised THEN 1 ELSE 0])
                 @@ log

\* line 340 and get_national_dex_number (lines 252-262)
NationalDex ==
    /\ pc = "dex"
    /\ \E r \in SpeciesResults(pokemon_data.id, species_info_cache) :
        /\ species_info_cache' = r.cache
        /\ contacted' = Contact(contacted, pokemon_data.id, r)
        /\ reqs' = reqs + r.nreq
        /\ national_dex_no' =
              IF ~r.raised /\ "id" \in DOMAIN r.value
              THEN r.value.id ELSE pokemon_data.id
    /\ pc' = "legendary"
    /\ UNCHANGED << include_forms, min_bst, type_chart, all_pokemon, idx,
                    pokemon_data, pokemon_details_cache, results,
                    processed_signatures, error_count, report, outcomes,
                    legend, fetch, runVars, scoreVars >>

Flagged(species_data) == species_data.is_legendary \/ species_data.is_mythical

\* is_legendary_or_mythical returns `verdict` (lines 237, 246, 249, 250) and
\* main continues at line 344 or goes on to line 347
Verdict(how, verdict) ==
    IF verdict
    THEN End("Excluded", "legendary", how)
    ELSE /\ legend' = [how EXCEPT !.decided = TRUE]
         /\ Goto("threshold")
         /\ UNCHANGED pokemon_data

\* is_legendary_or_mythical goes on to its next lookup
Pending(how, to) ==
    /\ legend' = how
    /\ Goto(to)
    /\ UNCHANGED pokemon_data

\* line 343, is_legendary_or_mythical lines 233-240: the entity's own species
Legendary ==
    /\ pc = "legendary"
    /\ \E r \in SpeciesResults(pokemon_data.id, species_info_cache) :
        LET how == [NoLegend EXCEPT !.name = pokemon_data.name,
                                    !.own = Resolution(r)]
        IN
        /\ species_info_cache' = r.cache
        /\ contacted' = Contact(contacted, pokemon_data.id, r)
        /\ IF r.raised THEN Verdict(how, TRUE)
           ELSE IF Flagged(r.value) THEN Verdict(how, TRUE)
           ELSE IF is_special_form(pokemon_data.name)
           THEN Pending(how, "legendary_base") /\ reqs' = reqs + r.nreq
           ELSE Verdict(how, FALSE) /\ reqs' = reqs + r.nreq
    /\ UNCHANGED << include_forms, min_bst, type_chart, all_pokemon,
                    pokemon_details_cache, results, processed_signatures,
                    error_count, report, fetch, runVars, scoreVars >>

\* is_legendary_or_mythical lines 241-244: the base form's detail record
LegendaryBase ==
    /\ pc = "legendary_base"
    /\ LET base_name == get_base_form_name(pokemon_data.name)
           base_url == NameUrl(base_name)
       IN
       \E base \in DetailResults(base_url, pokemon_details_cache) :
        LET how == [legend EXCEPT !.base =
                        IF base.raised THEN "raised"
                        ELSE IF base.value = None THEN "absent" ELSE "record"]
        IN
        /\ pokemon_details_cache' = base.cache
        /\ IF base.raised THEN Verdict(how, TRUE)
           ELSE IF base.value = None
           THEN Verdict(how, FALSE) /\ reqs' = reqs + base.nreq
           ELSE Pending(how, "legendary_base_species")
                /\ reqs' = reqs + base.nreq
    /\ UNCHANGED << include_forms, min_bst, type_chart, all_pokemon,
                    species_info_cache, results, processed_signatures,
                    error_count, report, fetch, contacted, runVars, scoreVars >>

\* is_legendary_or_mythical lines 245-246: the base form's species
LegendaryBaseSpecies ==
    /\ pc = "legendary_base_species"
    /\ LET base_url == NameUrl(get_base_form_name(pokemon_data.name))
           base_data == pokemon_details_cache[base_url]
       IN
       \E r \in SpeciesResults(base_data.id, species_info_cache) :
        LET how == [legend EXCEPT !.base_species = Resolution(r)] IN
        /\ species_info_cache' = r.cache
        /\ contacted' = Contact(contacted, base_data.id, r)
        /\ IF r.raised THEN Verdict(how, TRUE)
           ELSE IF Flagged(r.value) THEN Verdict(how, TRUE)
           ELSE Verdict(how, FALSE) /\ reqs' = reqs + r.nreq
    /\ UNCHANGED << include_forms, min_bst, type_chart, all_pokemon,
                    pokemon_details_cache, results, processed_signatures,
                    error_count, report, fetch, runVars, scoreVars >>

\* A faulty variant of BelowMinimum: a total equal to the minimum is below it.
BelowMinimum_OrEqual(stats_total, minimum) == stats_total <= minimum

\* line 348
BelowMinimum(stats_total, minimum) == stats_total < minimum

\* lines 347-356: the threshold, then the way to the base-form comparison
Threshold ==
    /\ pc = "threshold"
    /\ LET stats_total == Sum(pokemon_data.stats)
           base_name == get_base_form_name(pokemon_data.name)
       IN
       IF BelowMinimum(stats_total, min_bst)
       THEN End("Excluded", "threshold", legend)
       ELSE /\ Goto(IF << base_name >> # pokemon_data.name
                    THEN "base_form" ELSE "dedup")
            /\ UNCHANGED << pokemon_data, reqs, legend >>
    /\ UNCHANGED << include_forms, min_bst, type_chart, all_pokemon,
                    pokemon_details_cache, species_info_cache, results,
                    processed_signatures, error_count, report, fetch, contacted,
                    runVars, scoreVars >>

\* A faulty variant of SameAsBase: a base form that cannot be fetched counts
\* as a base form of the same signature.
SameAsBase_OrMissing(base, pokemon_signature) ==
    \/ base.raised
    \/ base.value = None
    \/ get_pokemon_signature(base.value) = pokemon_signature

\* lines 359-364: the base form was fetched and has the signature; a call
\* that raises, or returns None so that get_pokemon_signature(None) raises,
\* ends in the bare except
SameAsBase(base, pokemon_signature) ==
    /\ ~base.raised
    /\ base.value # None
    /\ get_pokemon_signature(base.value) = pokemon_signature

\* lines 357-364: an alternate form with the signature of its base form is
\* skipped; a base form that cannot be fetched (the call raises, or returns
\* None and get_pokemon_signature(None) raises) leaves the form unique
BaseForm ==
    /\ pc = "base_form"
    /\ LET pokemon_signature == get_pokemon_signature(pokemon_data)
           base_url == NameUrl(get_base_form_name(pokemon_data.name))
       IN
       \E base \in DetailResults(base_url, pokemon_details_cache) :
        /\ pokemon_details_cache' = base.cache
        /\ IF SameAsBase(base, pokemon_signature)
           THEN End("Excluded", "same_as_base", legend)
           ELSE /\ Goto("dedup")
                /\ reqs' = reqs + base.nreq
                /\ UNCHANGED << pokemon_data, legend >>
    /\ UNCHANGED << include_forms, min_bst, type_chart, all_pokemon,
                    species_info_cache, results, processed_signatures,
                    error_count, report, fetch, contacted, runVars, scoreVars >>

\* A faulty variant of Seen: the signature alone is looked up, not the key.
Seen_SignatureOnly(signature_key, processed) == signature_key[2] \in processed

\* line 368
Seen(signature_key, processed) == signature_key \in processed

\* A faulty variant of Accept: the key is not recorded.
Accept_Nothing(processed, signature_key) == processed

\* line 370
Accept(processed, signature_key) == processed \cup {signature_key}

\* lines 367-384: the key is recorded, then the row is scored and appended;
\* a type the chart lacks raises KeyError at line 114, after the key is in
\* processed_signatures, and the except branch counts the entity
Dedup ==
    /\ pc = "dedup"
    /\ LET pokemon_signature == get_pokemon_signature(pokemon_data)
           base_name == get_base_form_name(pokemon_data.name)
           signature_key == << base_name, pokemon_signature >>
           types == pokemon_data.types
           scored == calculate_defensive_effectiveness(types, type_chart)
       IN
       IF Seen(signature_key, processed_signatures)
       THEN /\ End("Excluded", "duplicate", legend)
            /\ UNCHANGED << results, processed_signatures, error_count >>
       ELSE /\ processed_signatures' = Accept(processed_signatures, signature_key)
            /\ IF scored.raised
               THEN /\ End("Error", "score", legend)
                    /\ error_count' = OnError(error_count)
                    /\ UNCHANGED results
               ELSE /\ End("Included", "row", legend)
                    /\ results' = Append(results,
                          [name |-> pokemon_data.name,
                           id |-> national_dex_no,
                           types |-> types,
                           stats |-> pokemon_data.stats,
                           base_stats_total |-> Sum(pokemon_data.stats),
                           defensive_advantages |-> scored.score])
                    /\ UNCHANGED error_count
    /\ UNCHANGED << include_forms, min_bst, type_chart, all_pokemon,
                    pokemon_details_cache, species_info_cache, report,
                    fetch, contacted, runVars, scoreVars >>

\* A faulty variant of Before: rows of the same score are not compared.
Before_ScoreOnly(a, b) == a.defensive_advantages > b.defensive_advantages

\* row a goes before row b in df.sort_values(by=['defensive_advantages',
\* 'base_stats_total'], ascending=False)
Before(a, b) ==
    \/ a.defensive_advantages > b.defensive_advantages
    \/ /\ a.defensive_advantages = b.defensive_advantages
       /\ a.base_stats_total > b.base_stats_total

\* line 409: rows with equal keys keep their order
RECURSIVE sort_values(_)
sort_values(rows) ==
    IF rows = << >> THEN << >>
    ELSE LET first == Head(rows)
             rest == sort_values(Tail(rows))
             ahead == SelectSeq(rest, LAMBDA b : Before(b, first))
             behind == SelectSeq(rest, LAMBDA b : ~Before(b, first))
         IN  ahead \o << first >> \o behind

\* lines 393-409: after the loop the rows are sorted; with no row, main
\* returns at line 403
Finish ==
    /\ pc = "loop"
    /\ idx > Len(all_pokemon)
    /\ pc' = "done"
    /\ report' = IF results = << >> THEN << >> ELSE sort_values(results)
    /\ UNCHANGED << include_forms, min_bst, type_chart, all_pokemon, idx,
                    pokemon_data, national_dex_no, pokemon_details_cache,
                    species_info_cache, results, processed_signatures,
                    error_count, outcomes, reqs, legend, fetch, contacted, runVars, scoreVars >>

Next ==
    \/ SkipExcluded
    \/ FetchDetails
    \/ NationalDex
    \/ Legendary
    \/ LegendaryBase
    \/ LegendaryBaseSpecies
    \/ Threshold
    \/ BaseForm
    \/ Dedup
    \/ Finish

Spec == Init /\ [][Next]_vars

-----------------------------------------------------------------------------
(* TwinSpec: a run and a second run of the pipeline, against a service     *)
(* whose answer to a url is fixed                                          *)

\* the listings run twice: an alternate form and its base form, in both
\* orders, among entries that are filtered out or denylisted
TwinListings ==
    {<< Entry(Pikachu), Entry(PikaBelle), Entry(Kartana), Entry(Indeedee),
        Entry(IronHands) >>,
     << Entry(IronHands), Entry(Indeedee), Entry(Kartana), Entry(PikaBelle),
        Entry(Pikachu) >>}

\* the detail urls and the species ids these listings lead to
TwinUrls == {ListUrl(Pikachu), ListUrl(PikaBelle), NameUrl("pikachu")}

TwinIds == {Pikachu.id, PikaBelle.id}

\* one response of each kind the lookups tell apart
Answers == {"200", "404", "500", "exc"}

\* the services: an answer for every url, 200 only where there is a record
Remotes ==
    {service \in [details : [TwinUrls -> Answers],
                  species : [TwinIds -> Answers]] :
        /\ \A url \in TwinUrls :
              RemoteDetails(url) = None => service.details[url] # "200"
        /\ \A pokemon_id \in TwinIds :
              RemoteSpecies(Str(pokemon_id)) = None
                  => service.species[pokemon_id] # "200"}

TwinInit ==
    /\ Start
    /\ \E listing \in TwinListings :
          all_pokemon = filtered_pokemon(listing, include_forms)
    /\ remote \in Remotes

\* main() is started a second time with the same arguments, its two caches
\* being as given
Restart(kind, details_cache, species_cache) ==
    /\ pc = "done"
    /\ run.no = 1
    /\ run' = [run EXCEPT !.no = 2, !.kind = kind,
                          !.first = [results |-> results, report |-> report,
                                     details |-> pokemon_details_cache,
                                     species |-> species_info_cache]]
    /\ pokemon_details_cache' = details_cache
    /\ species_info_cache' = species_cache
    /\ idx' = 1
    /\ pc' = "loop"
    /\ pokemon_data' = None
    /\ national_dex_no' = 0
    /\ results' = << >>
    /\ processed_signatures' = {}
    /\ error_count' = 0
    /\ report' = << >>
    /\ outcomes' = << >>
    /\ reqs' = 0
    /\ legend' = NoLegend
    /\ contacted' = EmptyDict
    /\ UNCHANGED << include_forms, min_bst, type_chart, all_pokemon, remote,
                    fetch, scoreVars >>

\* the second run starts from the cache contents the first started from
\* (both with --refresh-cache, or the cache files put back)
RunAgain == Restart("again", run.start.details, run.start.species)

\* lines 394-395, then lines 280-283 of the second run: the caches are saved
\* and loaded.  The keys of the detail cache are strings and its records are
\* what json.load returned, so the file gives back the dict; the keys of the
\* species cache go through load_dictionary.
Reload ==
    Restart("reload", pokemon_details_cache,
            load_dictionary(species_info_cache))

TwinNext == Next \/ RunAgain \/ Reload

TwinSpec == TwinInit /\ [][TwinNext]_vars

\* the loop is sequential code: a step that can be taken is taken
FairSpec == Spec /\ WF_vars(Next)

-----------------------------------------------------------------------------
(* Claims on the lookups (FetchSpec) *)

\* the responses a lookup can consume: one per attempt
Consumed(resps) == SubSeq(resps, 1, MaxRetries)

FreshDetails == fetch.fn = "details" /\ ~fetch.cached

FreshSpecies == fetch.fn = "species" /\ ~fetch.cached

\* C1 as stated: a detail fetch on a key that is not cached either returns
\* the complete record of a 200 response or raises; it never returns an
\* absent record.
C1_RecordOrFailure ==
    FreshDetails =>
        \/ fetch.raised
        \/ fetch.value # None /\ fetch.value = RemoteDetails(fetch.url)

\* C1 amended: a detail fetch on a key that is not cached ends in exactly one
\* of three ways, decided by the max_retries responses it consumes: with a
\* 200 among them it returns (and caches) the complete record; with none and
\* a last attempt that fails in transport or parsing it raises; with none and
\* a last attempt that ends in a status (429 or another) it returns None.
\* Nothing but a complete record is ever cached.
C1_RecordFailureOrNone ==
    FreshDetails =>
        LET c == Consumed(fetch.resps)
            key_cached == fetch.url \in DOMAIN pokemon_details_cache
        IN
        /\ Has200(c) =>
              /\ ~fetch.raised
              /\ fetch.value # None
              /\ fetch.value = RemoteDetails(fetch.url)
              /\ key_cached /\ pokemon_details_cache[fetch.url] = fetch.value
        /\ ~Has200(c) /\ Raises(c[MaxRetries]) =>
              fetch.raised /\ ~key_cached
        /\ ~Has200(c) /\ ~Raises(c[MaxRetries]) =>
              ~fetch.raised /\ fetch.value = None /\ ~key_cached

\* a fetch that was answered by statuses only and returned None
C1_Witness == FreshDetails /\ ~fetch.raised /\ fetch.value = None

\* k rate-limit responses, then a 200
RateLimitedThenOk(resps, k) ==
    /\ k + 1 <= Len(resps)
    /\ \A j \in 1..k : resps[j] = "429"
    /\ resps[k + 1] = "200"

\* C9 as stated: in the species lookup a 429 does not use up an attempt: any
\* number of 429s followed by a 200 returns the record of that 200, never the
\* default record.
C9_RateLimitIsFree ==
    FreshSpecies =>
        \A k \in 0..(ScriptLen - 1) :
            RateLimitedThenOk(fetch.resps, k) =>
                /\ ~fetch.raised
                /\ fetch.value = RemoteSpecies(Str(fetch.pokemon_id))

\* C9 amended: in the species lookup a 429 causes a wait and then the next
\* attempt, so it uses up one of the max_retries attempts: k 429s followed by
\* a 200 return (and cache) the record of that 200 when k < max_retries, and
\* the default record, after max_retries requests, when k >= max_retries.
C9_RateLimitUsesAttempt ==
    FreshSpecies =>
        \A k \in 0..(ScriptLen - 1) :
            RateLimitedThenOk(fetch.resps, k) =>
                LET key == IntKey(fetch.pokemon_id) IN
                /\ ~fetch.raised
                /\ key \in DOMAIN species_info_cache
                /\ species_info_cache[key] = fetch.value
                /\ IF k < MaxRetries
                   THEN /\ fetch.value = RemoteSpecies(Str(fetch.pokemon_id))
                        /\ fetch.nreq = k + 1
                   ELSE /\ fetch.value = DefaultData
                        /\ fetch.nreq = MaxRetries

\* max_retries 429s, the 200 behind them never requested: the default record
C9_Witness ==
    /\ FreshSpecies
    /\ RateLimitedThenOk(fetch.resps, MaxRetries)
    /\ fetch.value = DefaultData

\* the k-th response is the first 404, and no record came before it
FirstNotFound(resps, k) ==
    /\ resps[k] = "404"
    /\ \A j \in 1..(k - 1) : resps[j] \notin {"200", "404"}

\* the url of the species record of the base id derived from pokemon_id
BaseSpeciesUrl(pokemon_id) == SpeciesUrl(SplitFirst(Str(pokemon_id)))

\* C10 as stated: in the species lookup a 404 triggers exactly one redirect,
\* to the species url of the derived base id; if the redirected request
\* yields no record either, the lookup returns the default record and does
\* not raise.
C10_OneRedirectThenDefault ==
    FreshSpecies =>
        \A k \in 1..(MaxRetries - 1) :
            FirstNotFound(fetch.resps, k) =>
                /\ fetch.urls[k + 1] = BaseSpeciesUrl(fetch.pokemon_id)
                /\ fetch.resps[k + 1] # "200" =>
                      /\ ~fetch.raised
                      /\ fetch.value = DefaultData
                      /\ fetch.nreq = k + 1

\* C10 amended: in the species lookup every 404 uses up one attempt and
\* points the following requests at the species url of the derived base id;
\* the remaining attempts go on as before.  A 200 in a later attempt returns
\* its record; with no 200 in any of the max_retries attempts the lookup
\* returns (and caches) the default record when the last attempt ends in a
\* status, and raises when the last attempt fails in transport or parsing.
C10_NotFoundUsesAttempt ==
    FreshSpecies =>
        \A k \in 1..MaxRetries :
            FirstNotFound(fetch.resps, k) =>
                LET c == Consumed(fetch.resps)
                    key == IntKey(fetch.pokemon_id)
                IN
                /\ \A j \in (k + 1)..fetch.nreq :
                      fetch.urls[j] = BaseSpeciesUrl(fetch.pokemon_id)
                /\ Has200(c) =>
                      /\ ~fetch.raised
                      /\ fetch.value = RemoteSpecies(fetch.urls[fetch.nreq])
                      /\ fetch.value # None
                      /\ c[fetch.nreq] = "200"
                /\ ~Has200(c) /\ Raises(c[MaxRetries]) =>
                      /\ fetch.raised
                      /\ key \notin DOMAIN species_info_cache
                /\ ~Has200(c) /\ ~Raises(c[MaxRetries]) =>
                      /\ ~fetch.raised
                      /\ fetch.value = DefaultData
                      /\ fetch.nreq = MaxRetries
                      /\ key \in DOMAIN species_info_cache
                      /\ species_info_cache[key] = DefaultData

\* a 404, then a record in the last attempt: three requests, no default
C10_Witness ==
    /\ FreshSpecies
    /\ FirstNotFound(fetch.resps, 1)
    /\ fetch.nreq = MaxRetries
    /\ fetch.value = RemoteSpecies(BaseSpeciesUrl(fetch.pokemon_id))
    /\ fetch.value # None

\* the call was answered 200 in its last request
Obtained200(call) == call.nreq >= 1 /\ call.resps[call.nreq] = "200"

\* C11: memoization, for both caches.  A lookup whose key is in the cache
\* issues no request, returns the stored value and leaves the cache as it
\* is; a lookup whose key is absent and that is answered 200 stores exactly
\* the record of that answer under the key, and returns it.
C11_Memoization ==
    [][/\ fetch'.fn = "details" =>
            LET url == fetch'.url IN
            IF url \in DOMAIN pokemon_details_cache
            THEN /\ fetch'.nreq = 0 /\ ~fetch'.raised
                 /\ fetch'.value = pokemon_details_cache[url]
                 /\ pokemon_details_cache' = pokemon_details_cache
            ELSE Obtained200(fetch') =>
                 /\ ~fetch'.raised
                 /\ fetch'.value = RemoteDetails(url)
                 /\ pokemon_details_cache'
                        = (url :> RemoteDetails(url)) @@ pokemon_details_cache
       /\ fetch'.fn = "species" =>
            LET key == IntKey(fetch'.pokemon_id) IN
            IF key \in DOMAIN species_info_cache
            THEN /\ fetch'.nreq = 0 /\ ~fetch'.raised
                 /\ fetch'.value = species_info_cache[key]
                 /\ species_info_cache' = species_info_cache
            ELSE Obtained200(fetch') =>
                 LET species_data == RemoteSpecies(fetch'.urls[fetch'.nreq]) IN
                 /\ ~fetch'.raised
                 /\ species_data # None
                 /\ fetch'.value = species_data
                 /\ species_info_cache'
                        = (key :> species_data) @@ species_info_cache]_vars

\* a species lookup that found its key in the cache
C11_Witness ==
    /\ fetch.fn = "species" /\ fetch.cached
    /\ fetch.nreq = 0
    /\ fetch.value = RemoteSpecies(Str(25))

\* C16: one logical fetch (a call of either lookup on a key that is not
\* cached) issues at least one and at most max_retries requests and ends,
\* whatever the responses: 404 redirects, 429s, error statuses, transport
\* failures, in any mix.
C16_BoundedAttempts ==
    (FreshDetails \/ FreshSpecies) =>
        /\ fetch.nreq >= 1
        /\ fetch.nreq <= MaxRetries
        /\ fetch.raised \in BOOLEAN

\* a species lookup answered 404, then 429, then a transport failure: it
\* raised after max_retries requests
C16_Witness ==
    /\ FreshSpecies
    /\ SubSeq(fetch.resps, 1, MaxRetries) = << "404", "429", "exc" >>
    /\ fetch.nreq = MaxRetries
    /\ fetch.raised

-----------------------------------------------------------------------------
(* Claims on the score (ScoreSpec) *)

Scored == score # -1

\* the positions of the list whose type half-resists x
HalfResisting(x) ==
    {k \in 1..Len(pokemon_types) :
        x \in type_chart[pokemon_types[k]].half_damage_from}

\* the positions of the list whose type is immune to x
Immune(x) ==
    {k \in 1..Len(pokemon_types) :
        x \in type_chart[pokemon_types[k]].no_damage_from}

\* C3: the score is the number of distinct attacking types that at least one
\* of the entity's types resists or is immune to, and the three sets are
\* pairwise disjoint, so that no attacking type is counted twice.
C3_CountsDistinctTypes ==
    Scored =>
        /\ score = Cardinality({x \in AttackTypes :
                                  HalfResisting(x) \cup Immune(x) # {}})
        /\ immunities \cap quarter_damage = {}
        /\ immunities \cap half_damage = {}
        /\ quarter_damage \cap half_damage = {}

\* C4 as stated: when two types of the list both half-resist x, x ends in
\* quarter_damage and not in half_damage, whatever the other types and the
\* order.
C4_StackingPromotion ==
    Scored =>
        \A x \in AttackTypes :
            Cardinality(HalfResisting(x)) >= 2 =>
                x \in quarter_damage /\ x \notin half_damage

\* the position of the second type, in list order, that half-resists x
SecondHalfResisting(x) ==
    CHOOSE k \in HalfResisting(x) :
        Cardinality({j \in HalfResisting(x) : j < k}) = 1

\* C4 amended: when two types of the list both half-resist x and no type up
\* to the second of them, in list order, is immune to x, then x ends in
\* quarter_damage and not in half_damage, whatever the other types.
C4_PromotionUnlessImmune ==
    Scored =>
        \A x \in AttackTypes :
            (/\ Cardinality(HalfResisting(x)) >= 2
             /\ \A k \in Immune(x) : k > SecondHalfResisting(x))
            => x \in quarter_damage /\ x \notin half_damage

\* three types: two half-resist x, the third, listed last, is immune to it
C4_Witness ==
    /\ Scored
    /\ \E x \in AttackTypes :
        /\ Cardinality(HalfResisting(x)) >= 2
        /\ Immune(x) # {}
        /\ \A k \in Immune(x) : k > SecondHalfResisting(x)
        /\ x \in quarter_damage

\* the lists that hold the entries of `types` in another order
Reorderings(types) ==
    LET n == Len(types)
        orders == {f \in [1..n -> 1..n] : \A j, k \in 1..n : j # k => f[j] # f[k]}
    IN  {[k \in 1..n |-> types[f[k]]] : f \in orders}

\* C19: the score does not depend on the order of the types: every
\* reordering of the type list gets the score of the list, for every chart.
C19_OrderIndependent ==
    Scored =>
        \A other \in Reorderings(pokemon_types) :
            calculate_defensive_effectiveness(other, type_chart).score = score

-----------------------------------------------------------------------------
(* Claims on the loop of main() (Spec, FairSpec) *)

Done == pc = "done"

\* the key of lines 352-367 for the entity a row was emitted for
KeyOf(row) ==
    << get_base_form_name(row.name), << Sorted(row.types), row.stats >> >>

\* the positions of the rows emitted for the entities named
RowsOf(names) == {k \in 1..Len(results) : results[k].name \in names}

\* the entries of outcomes of an entity
Processed(name) == {k \in 1..Len(outcomes) : outcomes[k].name = name}

\* C2: legendary determination fails closed: an entity whose legendary
\* status cannot be resolved (its species lookup, or for a special form a
\* lookup of its base form, gets no record from the service) is judged
\* legendary by is_legendary_or_mythical and gets no result row.
C2_FailsClosed ==
    /\ legend.decided => ~Unresolved(legend)
    /\ \A k \in 1..Len(outcomes) :
          outcomes[k].unresolved =>
              /\ outcomes[k].reason = "legendary"
              /\ RowsOf({outcomes[k].name}) = {}

\* C5: no two result rows were emitted for the same key (base-form name,
\* signature), in any state of the run.
C5_NoDuplicateKeys ==
    \A j, k \in 1..Len(results) :
        j # k => KeyOf(results[j]) # KeyOf(results[k])

\* an entity was turned away at line 368 by the key of an emitted row
C5_Witness ==
    \E k \in 1..Len(outcomes) :
        /\ outcomes[k].reason = "duplicate"
        /\ \E j \in 1..Len(results) :
              /\ results[j].name # outcomes[k].name
              /\ get_base_form_name(results[j].name)
                     = get_base_form_name(outcomes[k].name)

\* the alternate forms of the catalogue with their base form, of the same
\* signature
FormPairs == {<< PikaBelle, Pikachu >>, << ShadeForm, Shade >>}

\* the entity went past the denylist, legendary and threshold checks
PassedChecks(name) ==
    \E k \in Processed(name) :
        outcomes[k].reason \in {"same_as_base", "duplicate", "row", "score"}

\* exactly one row for the pair, under the name of the base form
OneRowFor(pair) ==
    /\ Cardinality(RowsOf({pair[1].name, pair[2].name})) = 1
    /\ \A k \in RowsOf({pair[1].name, pair[2].name}) :
          KeyOf(results[k]) = << pair[2].name[1],
                                 get_pokemon_signature(pair[2]) >>

\* C6 as stated: an alternate form and its base form, both processed, of the
\* same signature and both past the denylist, legendary and threshold checks,
\* get exactly one result row between them, in either order and whether or
\* not the base form's record can be fetched.
C6_OneRowForPair ==
    Done =>
        \A pair \in FormPairs :
            (PassedChecks(pair[1].name) /\ PassedChecks(pair[2].name))
            => OneRowFor(pair)

\* every type of the record has an entry in the type chart
Chartable(data) ==
    \A k \in 1..Len(data.types) : data.types[k] \in DOMAIN type_chart

\* C6 amended: ... and whose types are all in the type chart (so that scoring
\* the row does not raise) get exactly one result row between them, in
\* either order and whether or not the base form's record can be fetched.
C6_OneRowForChartablePair ==
    Done =>
        \A pair \in FormPairs :
            (/\ PassedChecks(pair[1].name) /\ PassedChecks(pair[2].name)
             /\ Chartable(pair[1]) /\ Chartable(pair[2]))
            => OneRowFor(pair)

\* the alternate form came first, its base form could not be fetched, the
\* row is the alternate form's and the base form was turned away
C6_Witness ==
    /\ Done
    /\ PassedChecks(PikaBelle.name) /\ PassedChecks(Pikachu.name)
    /\ \E k \in 1..Len(results) : results[k].name = PikaBelle.name

DetailsUnchanged == pokemon_details_cache' = pokemon_details_cache

SpeciesUnchanged == species_info_cache' = species_info_cache

\* the names of the denylist: the two lists of lines 194-207
Denylist == ultra_beasts \cup paradox_pokemon

\* C7: a denylisted entry is passed over with no detail or species request
\* (no request counted, no cache written) and without a result row, whatever
\* the threshold, the include-forms flag and its stats; no row is ever
\* emitted for a denylisted name.
C7_DenylistNoFetchNoRow ==
    /\ [][(InLoop /\ pokemon.name \in Denylist) =>
            /\ reqs' = 0
            /\ DetailsUnchanged /\ SpeciesUnchanged
            /\ results' = results
            /\ pc' = "loop" /\ idx' = idx + 1]_vars
    /\ [](\A k \in 1..Len(results) : results[k].name \notin Denylist)

\* both denylisted entries were in the listing and were passed over
C7_Witness ==
    /\ Processed(Kartana.name) # {}
    /\ Processed(IronHands.name) # {}
    /\ min_bst <= Sum(IronHands.stats)

\* the entries of outcomes with the outcome
Ended(outcome) == {k \in 1..Len(outcomes) : outcomes[k].outcome = outcome}

\* C8, in every state: the entities processed so far are the first entries
\* of the filtered list, once each and in list order, each with a terminal
\* outcome, and error_count is the number of those that ended in Error.
C8_Isolation ==
    /\ pc # "done" => Len(outcomes) = idx - 1
    /\ Len(outcomes) <= Len(all_pokemon)
    /\ \A k \in 1..Len(outcomes) :
          /\ outcomes[k].name = all_pokemon[k].name
          /\ outcomes[k].outcome \in {"Included", "Excluded", "Error"}
    /\ error_count = Cardinality(Ended("Error"))
    /\ Done => Len(outcomes) = Len(all_pokemon)

\* C8: whatever fails while single entities are processed, the run never
\* aborts: every entity of the filtered list is processed once, in order, to
\* a terminal outcome, the error counter counts the entities that ended in
\* Error, and the pass finishes.
C8_IsolationAndCompletion == []C8_Isolation /\ <>Done

\* the run is over, an entity ended in Error and a later one was included
C8_Witness ==
    /\ Done
    /\ \E j \in Ended("Error") : \E k \in Ended("Included") : j < k


-----------------------------------------------------------------------------
(* Claims on the steps of the loop body (Spec) *)

\* this step ends the entity: an entry is added to outcomes
EndsEntity == Len(outcomes') = Len(outcomes) + 1

\* this step ends the entity with the reason
EndsWith(reason) == EndsEntity /\ outcomes'[Len(outcomes')].reason = reason

\* C13: an entity that reaches the threshold step (past the denylist, the
\* fetch and the legendary check) is excluded there if and only if its stat
\* total is strictly below the minimum; with a total equal to the minimum it
\* goes on to the deduplication steps.  No other step excludes by threshold.
C13_ThresholdBoundary ==
    [][/\ pc = "threshold" =>
            IF Sum(pokemon_data.stats) < min_bst
            THEN /\ EndsWith("threshold")
                 /\ outcomes'[Len(outcomes')].outcome = "Excluded"
                 /\ results' = results
            ELSE /\ outcomes' = outcomes
                 /\ pc' \in {"base_form", "dedup"}
       /\ EndsWith("threshold") =>
            pc = "threshold" /\ Sum(pokemon_data.stats) < min_bst]_vars

\* an entity whose total equals the minimum is past the threshold
C13_Witness ==
    /\ pc \in {"base_form", "dedup"}
    /\ Sum(pokemon_data.stats) = min_bst

\* how often the row x is in rows
Count(rows, x) == Cardinality({k \in 1..Len(rows) : rows[k] = x})

\* C14: the reported sequence is a permutation of the accepted rows, by
\* score descending and, for equal scores, by stat total descending.
C14_SortedPermutation ==
    Done =>
        /\ Len(report) = Len(results)
        /\ \A k \in 1..Len(results) :
              Count(report, results[k]) = Count(results, results[k])
        /\ \A k \in 1..(Len(report) - 1) :
              LET r1 == report[k]
                  r2 == report[k + 1]
              IN  \/ r1.defensive_advantages > r2.defensive_advantages
                  \/ /\ r1.defensive_advantages = r2.defensive_advantages
                     /\ r1.base_stats_total >= r2.base_stats_total

\* two rows of the same score were accepted with the lower total first, and
\* are reported with the higher total first
C14_Witness ==
    /\ Done
    /\ report # results
    /\ \E k \in 1..(Len(report) - 1) :
          /\ report[k].defensive_advantages = report[k + 1].defensive_advantages
          /\ report[k].base_stats_total > report[k + 1].base_stats_total

\* the url of the base form's record (line 358)
BaseUrlOf(data) == NameUrl(get_base_form_name(data.name))

\* the fetch of the base form's record at lines 357-364 fails in this step:
\* no record is there, before or after
BaseFetchFailed ==
    /\ pc = "base_form"
    /\ BaseUrlOf(pokemon_data) \notin DOMAIN pokemon_details_cache'

\* an alternate form at the deduplication step whose base form could not be
\* fetched and whose key is new
UniqueForm ==
    /\ pc = "dedup"
    /\ << get_base_form_name(pokemon_data.name) >> # pokemon_data.name
    /\ BaseUrlOf(pokemon_data) \notin DOMAIN pokemon_details_cache
    /\ KeyOf(pokemon_data) \notin processed_signatures

\* this step emits the row of the entity
RowFor(data) ==
    /\ Len(results') = Len(results) + 1
    /\ results'[Len(results')].name = data.name
    /\ EndsWith("row")

\* C17 as stated: for an alternate form that is not legendary and meets the
\* threshold, a failure to fetch the base form's record neither excludes it
\* nor ends it in Error: it goes on to the deduplication step and, if its
\* key is new, to a result row.
C17_UniqueOnBaseFailure ==
    [][/\ BaseFetchFailed =>
            /\ pc' = "dedup"
            /\ outcomes' = outcomes /\ error_count' = error_count
       /\ UniqueForm => RowFor(pokemon_data)]_vars

\* C17 amended: ... it goes on to the deduplication step and, if its key is
\* new, to a result row when all its types are in the type chart; when a
\* type is missing from the chart scoring raises and it ends in Error.
C17_UniqueOnBaseFailureIfChartable ==
    [][/\ BaseFetchFailed =>
            /\ pc' = "dedup"
            /\ outcomes' = outcomes /\ error_count' = error_count
       /\ UniqueForm =>
            IF Chartable(pokemon_data)
            THEN RowFor(pokemon_data)
            ELSE /\ EndsWith("score")
                 /\ outcomes'[Len(outcomes')].outcome = "Error"
                 /\ results' = results]_vars

\* the alternate form has a row and its base form's record was never fetched
C17_Witness ==
    /\ Done
    /\ \E k \in 1..Len(results) : results[k].name = PikaBelle.name
    /\ BaseUrlOf(PikaBelle) \notin DOMAIN pokemon_details_cache

\* this step ends the entity in the Error outcome
EndsInError == EndsEntity /\ outcomes'[Len(outcomes')].outcome = "Error"

\* the keys of the emitted rows
RowKeys == {KeyOf(results[k]) : k \in 1..Len(results)}

\* the record of the catalogue with the name
Named(name) == CHOOSE p \in Catalogue : p.name = name

\* C20 as stated: an entity that ends in Error leaves the result list and
\* the accepted keys unchanged; in every state the accepted keys are exactly
\* the keys of the emitted rows.
C20_ErrorLeavesKeys ==
    /\ [][EndsInError =>
            /\ results' = results
            /\ processed_signatures' = processed_signatures]_vars
    /\ [](processed_signatures = RowKeys)

\* C20 amended: an entity that ends in Error leaves the result list
\* unchanged, and leaves the accepted keys unchanged unless the error is
\* raised by scoring, after its new key was recorded.  In every state the
\* keys of the emitted rows are accepted keys, and every other accepted key
\* is the key of an entity that ended in Error at scoring.
C20_KeyStaysAfterScoringError ==
    /\ [][EndsInError =>
            /\ results' = results
            /\ IF EndsWith("score")
               THEN /\ KeyOf(pokemon_data) \notin processed_signatures
                    /\ processed_signatures'
                          = processed_signatures \cup {KeyOf(pokemon_data)}
               ELSE processed_signatures' = processed_signatures]_vars
    /\ [](/\ RowKeys \subseteq processed_signatures
          /\ \A key \in processed_signatures \ RowKeys :
                \E k \in 1..Len(outcomes) :
                    /\ outcomes[k].outcome = "Error"
                    /\ outcomes[k].reason = "score"
                    /\ KeyOf(Named(outcomes[k].name)) = key)

\* an accepted key without a row, and a row
C20_Witness ==
    /\ processed_signatures \ RowKeys # {}
    /\ results # << >>


-----------------------------------------------------------------------------
(* Claims on the species lookups of a run (Spec) *)

\* C12 as stated: over the run, at most one call of get_species_info for a
\* given id goes to the service, with at most max_retries requests for that
\* id in all, because every lookup that went to the service left a record
\* in the species cache.
C12_PaidOncePerId ==
    \A pokemon_id \in DOMAIN contacted :
        /\ contacted[pokemon_id].calls <= 1
        /\ contacted[pokemon_id].requests <= MaxRetries
        /\ IntKey(pokemon_id) \in DOMAIN species_info_cache

\* C12 amended: a lookup that goes to the service and returns leaves a
\* record (real or default) under the id, so no later call for the id goes
\* to the service; a lookup that raises leaves nothing, and the next call
\* for the id goes to the service again.  For every id, the calls that went
\* to the service are at most one more than those that raised, each made at
\* most max_retries requests, and a record is cached under the id exactly
\* when one of them returned.
C12_PaidOncePerReturn ==
    \A pokemon_id \in DOMAIN contacted :
        LET c == contacted[pokemon_id] IN
        /\ c.calls >= 1
        /\ c.calls <= c.raised + 1
        /\ c.requests <= MaxRetries * c.calls
        /\ c.requests >= MaxRetries * c.raised
        /\ (c.calls > c.raised) <=> (IntKey(pokemon_id) \in DOMAIN species_info_cache)

\* a lookup raised, and the next lookup of the id went to the service again
\* and left a record
C12_Witness ==
    \E pokemon_id \in DOMAIN contacted :
        /\ contacted[pokemon_id].calls = 2
        /\ contacted[pokemon_id].raised = 1
        /\ contacted[pokemon_id].requests > MaxRetries
        /\ IntKey(pokemon_id) \in DOMAIN species_info_cache


-----------------------------------------------------------------------------
(* Claims on two runs (TwinSpec) *)

C18_ReloadedSpeciesAreHits ==
    (run.no = 2 /\ run.kind = "reload") =>
        /\ \A key \in DOMAIN run.first.species :
              key[1] = "int" => key \in DOMAIN species_info_cache
        /\ \A pokemon_id \in DOMAIN contacted :
              IntKey(pokemon_id) \notin DOMAIN run.first.species

====
